---- MODULE Spec2Model ----
(***************************************************************************)
(* A model of the retrieval pipeline of the chat backend:                  *)
(*   - backend/app/rag/chunking.py  (chunk_text and its boundary finders)  *)
(*   - backend/app/rag/service.py   (RAGService over a Chroma collection)  *)
(*   - backend/app/api/routes/files.py (the upload endpoint)               *)
(*                                                                         *)
(* Texts are sequences of one-character strings.  Offsets are Python's     *)
(* 0-based offsets; At(t, i) is t[i] in Python.                            *)
(***************************************************************************)
EXTENDS Integers, Sequences, FiniteSets, TLC

Min(a, b) == IF a <= b THEN a ELSE b

Max(a, b) == IF a >= b THEN a ELSE b

Abs(a) == IF a < 0 THEN 0 - a ELSE a

SetMin(S) == CHOOSE x \in S : \A y \in S : x <= y

SetMax(S) == CHOOSE x \in S : \A y \in S : x >= y

\* sorted(set(...)) of a collection of offsets
RECURSIVE Sorted(_)
Sorted(S) == IF S = {} THEN <<>> ELSE <<SetMin(S)>> \o Sorted(S \ {SetMin(S)})

(***************************************************************************)
(* Characters and the character classes the regular expressions use.       *)
(***************************************************************************)
Backtick == "BACKTICK"

Whitespace == {" ", "\n", "\t"}

SentenceEnd == {".", "!", "?"}

ListMarker == {"-", "*", "+"}

Digit == {"0", "1", "2", "3", "4", "5", "6", "7", "8", "9"}

At(t, i) == t[i + 1]

\* t[a:b] for 0 <= a
Slice(t, a, b) == SubSeq(t, a + 1, Min(b, Len(t)))

\* s.strip()
Strip(s) ==
    IF \A i \in 1..Len(s) : s[i] \in Whitespace THEN <<>>
    ELSE LET lead == CHOOSE n \in 0..(Len(s) - 1) :
                        /\ s[n + 1] \notin Whitespace
                        /\ \A j \in 1..n : s[j] \in Whitespace
             trail == CHOOSE n \in 0..(Len(s) - 1) :
                        /\ s[Len(s) - n] \notin Whitespace
                        /\ \A j \in 1..n : s[Len(s) + 1 - j] \in Whitespace
         IN  SubSeq(s, lead + 1, Len(s) - trail)

\* the first offset r in q..e with r = e or t[r] outside class; the end of the
\* run of class characters that starts at q, cut at e
RunEnd(t, class, q, e) ==
    IF q >= e THEN e ELSE SetMin({r \in q..e : r = e \/ At(t, r) \notin class})

\* the first offset of the run of class characters that holds p, not before lo
RunStart(t, class, p, lo) ==
    SetMax({r \in lo..p : r = lo \/ At(t, r - 1) \notin class})

\* "^" under re.MULTILINE in the slice that starts at lo
LineStart(t, p, lo) == p = lo \/ At(t, p - 1) = "\n"

(***************************************************************************)
(* Program constants of chunking.py                                        *)
(***************************************************************************)
MarkdownSample == 2000

MinBoundaryChunkSize == 200

DefaultChunkSize == 1000

DefaultChunkOverlap == 200

MaxHeaderHashes == 6

(***************************************************************************)
(* _is_markdown: any of seven patterns found in text[:2000].               *)
(***************************************************************************)
\* ^#{1,6}\s+ at offset p of the slice lo..e
HeaderAt(t, p, lo, e) ==
    /\ LineStart(t, p, lo)
    /\ At(t, p) = "#"
    /\ LET q == RunEnd(t, {"#"}, p, e)
       IN  q - p <= MaxHeaderHashes /\ q < e /\ At(t, q) \in Whitespace

\* ^\s*[-*+]\s+
UnorderedListAt(t, p, lo, e) ==
    /\ LineStart(t, p, lo)
    /\ LET q == RunEnd(t, Whitespace, p, e)
       IN  q + 1 < e /\ At(t, q) \in ListMarker /\ At(t, q + 1) \in Whitespace

\* ^\s*\d+\.\s+
OrderedListAt(t, p, lo, e) ==
    /\ LineStart(t, p, lo)
    /\ LET q == RunEnd(t, Whitespace, p, e)
           d == RunEnd(t, Digit, q, e)
       IN  d > q /\ d + 1 < e /\ At(t, d) = "." /\ At(t, d + 1) \in Whitespace

NoNewline(t, a, b) == \A k \in a..b : At(t, k) # "\n"

\* \[.*?\]\(.*?\)
LinkIn(t, e) ==
    \E i \in 0..(e - 1) :
        /\ At(t, i) = "["
        /\ \E j \in (i + 1)..(e - 3) :
            /\ At(t, j) = "]" /\ At(t, j + 1) = "("
            /\ NoNewline(t, i + 1, j - 1)
            /\ \E k \in (j + 2)..(e - 1) : At(t, k) = ")" /\ NoNewline(t, j + 2, k - 1)

\* \*\*.*?\*\*
BoldIn(t, e) ==
    \E i \in 0..(e - 4) :
        /\ At(t, i) = "*" /\ At(t, i + 1) = "*"
        /\ \E j \in (i + 2)..(e - 2) :
            At(t, j) = "*" /\ At(t, j + 1) = "*" /\ NoNewline(t, i + 2, j - 1)

\* _.*?_
ItalicIn(t, e) ==
    \E i \in 0..(e - 2) :
        /\ At(t, i) = "_"
        /\ \E j \in (i + 1)..(e - 1) : At(t, j) = "_" /\ NoNewline(t, i + 1, j - 1)

CodeFenceIn(t, e) ==
    \E p \in 0..(e - 3) :
        At(t, p) = Backtick /\ At(t, p + 1) = Backtick /\ At(t, p + 2) = Backtick

_is_markdown(t) ==
    LET e == Min(MarkdownSample, Len(t))
    IN  \/ \E p \in 0..(e - 1) : HeaderAt(t, p, 0, e)
        \/ CodeFenceIn(t, e)
        \/ \E p \in 0..(e - 1) : UnorderedListAt(t, p, 0, e)
        \/ \E p \in 0..(e - 1) : OrderedListAt(t, p, 0, e)
        \/ LinkIn(t, e)
        \/ BoldIn(t, e)
        \/ ItalicIn(t, e)

(***************************************************************************)
(* _find_sentence_boundaries: start_pos + match.end() for every match of   *)
(* [.!?]+(?:\s+|$) in text[start_pos:end_pos].  A match is a whole run of  *)
(* sentence enders that is followed by whitespace or by the end of the     *)
(* slice; it ends after the whitespace run that follows.  The code returns *)
(* the offsets in ascending order; every caller puts them in a set.        *)
(***************************************************************************)
_find_sentence_boundaries(t, start_pos, end_pos) ==
    LET e == Min(end_pos, Len(t))
    IN  { RunEnd(t, Whitespace, q, e) :
            q \in { q \in (start_pos + 1)..e :
                      /\ At(t, q - 1) \in SentenceEnd
                      /\ (q = e \/ At(t, q) \in Whitespace) } }

\* start_pos + match.end() for every match of \n\n+ in text[start_pos:end_pos]
ParagraphBreaks(t, start_pos, end_pos) ==
    LET e == Min(end_pos, Len(t))
    IN  { r \in (start_pos + 2)..e :
            /\ At(t, r - 1) = "\n" /\ At(t, r - 2) = "\n"
            /\ (r = e \/ At(t, r) # "\n") }

\* start_pos + match.start() for every match of ``` (matches do not overlap)
CodeFences(t, start_pos, end_pos) ==
    LET e == Min(end_pos, Len(t))
    IN  { p \in start_pos..(e - 3) :
            /\ At(t, p) = Backtick /\ At(t, p + 1) = Backtick /\ At(t, p + 2) = Backtick
            /\ (p - RunStart(t, {Backtick}, p, start_pos)) % 3 = 0 }

\* start_pos + match.start() for every match of ^#{1,6}\s+
Headers(t, start_pos, end_pos) ==
    LET e == Min(end_pos, Len(t))
    IN  { p \in start_pos..(e - 1) : HeaderAt(t, p, start_pos, e) }

_find_markdown_boundaries(t, start_pos, end_pos) ==
    Headers(t, start_pos, end_pos)
        \cup CodeFences(t, start_pos, end_pos)
        \cup ParagraphBreaks(t, start_pos, end_pos)

(***************************************************************************)
(* chunk_text, boundary-aware path: one iteration of the while loop.       *)
(***************************************************************************)
\* target_end one character too far
TargetEndOffByOne(t, chunk_size, start) == Min(start + chunk_size + 1, Len(t))

target_end(t, chunk_size, start) == Min(start + chunk_size, Len(t))

\* boundaries, after sorted(set(boundaries)): sentence ends, the markdown
\* boundaries of a markdown text, and the first paragraph break of the window
Boundaries(t, chunk_size, chunk_overlap, md, start) ==
    LET window == target_end(t, chunk_size, start) + chunk_overlap
        para == ParagraphBreaks(t, start, window)
    IN  _find_sentence_boundaries(t, start, window)
            \cup (IF md THEN _find_markdown_boundaries(t, start, window) ELSE {})
            \cup (IF para = {} THEN {} ELSE {SetMin(para)})

\* the body of "for boundary in boundaries", from the i-th boundary on
RECURSIVE BestEndLoop(_, _, _, _, _, _)
BestEndLoop(bs, i, best, start, te, chunk_overlap) ==
    IF i > Len(bs) THEN best
    ELSE IF start < bs[i] /\ bs[i] <= te + chunk_overlap
         THEN BestEndLoop(bs, i + 1,
                          IF Abs(bs[i] - te) < Abs(best - te) THEN bs[i] ELSE best,
                          start, te, chunk_overlap)
         ELSE IF bs[i] > te + chunk_overlap THEN best
              ELSE BestEndLoop(bs, i + 1, best, start, te, chunk_overlap)

\* best_end as the candidate closest to target_end among those of the window
BestEndClosestCandidate(t, chunk_size, chunk_overlap, md, start) ==
    LET te == target_end(t, chunk_size, start)
        cands == {b \in Boundaries(t, chunk_size, chunk_overlap, md, start) :
                    start < b /\ b <= te + chunk_overlap}
    IN  IF cands = {} THEN te
        ELSE SetMin({b \in cands : \A o \in cands : Abs(b - te) <= Abs(o - te)})

\* best_end: starts as target_end, replaced by a boundary that is strictly
\* closer to target_end, and reset to target_end when it is not after start
best_end(t, chunk_size, chunk_overlap, md, start) ==
    LET te == target_end(t, chunk_size, start)
        found == BestEndLoop(Sorted(Boundaries(t, chunk_size, chunk_overlap, md, start)),
                             1, te, start, te, chunk_overlap)
    IN  IF found <= start THEN te ELSE found

\* next_start with any boundary before best_end taken as the overlap's start
NextStartAnyBoundary(t, chunk_size, chunk_overlap, md, start) ==
    LET be == best_end(t, chunk_size, chunk_overlap, md, start)
        overlap_boundaries ==
            {b \in Boundaries(t, chunk_size, chunk_overlap, md, start) : b < be}
    IN  IF overlap_boundaries # {} THEN SetMax(overlap_boundaries)
        ELSE Max(start + 1, be - chunk_overlap)

\* next_start with the overlap added instead of subtracted
NextStartSignError(t, chunk_size, chunk_overlap, md, start) ==
    LET be == best_end(t, chunk_size, chunk_overlap, md, start)
    IN  Max(start + 1, be + chunk_overlap)

\* the cursor of the next iteration
next_start(t, chunk_size, chunk_overlap, md, start) ==
    LET be == best_end(t, chunk_size, chunk_overlap, md, start)
        overlap_start == Max(start, be - chunk_overlap)
        overlap_boundaries ==
            {b \in Boundaries(t, chunk_size, chunk_overlap, md, start) :
                overlap_start <= b /\ b < be}
    IN  IF overlap_boundaries # {} THEN SetMax(overlap_boundaries)
        ELSE Max(start + 1, be - chunk_overlap)

(***************************************************************************)
(* chunk_text as a process: the inputs, the cursor, the chunks so far.     *)
(* cuts is a history of the ranges text[s:e] the loop has cut, with        *)
(* whether the cut was appended to chunks.                                 *)
(***************************************************************************)
VARIABLES text, chunk_size, chunk_overlap, is_markdown, start, chunks, cuts, pc

chunkVars == <<text, chunk_size, chunk_overlap, is_markdown, start, chunks, cuts, pc>>

(***************************************************************************)
(* The service's state: the configured credential (settings), the Chroma   *)
(* collection, the files under STORAGE_DIR, and, as history, the last call *)
(* with its outcome and the sessions cleared and not ingested into since.  *)
(***************************************************************************)
VARIABLES openai_api_key, collection, storage, lastOp, clearedSessions

ragVars == <<openai_api_key, collection, storage, lastOp, clearedSessions>>

(***************************************************************************)
(* The loader pipeline of one ingest (loaders.py, chunk_documents): the    *)
(* paths handed to load_files, what the disk holds at each of them,        *)
(* whether pypdf and python-docx are installed, and the documents and      *)
(* chunks produced so far.                                                 *)
(***************************************************************************)
VARIABLES file_paths, disk, PdfReader, Document, loaded, all_chunks, pcDocs

docVars == <<file_paths, disk, PdfReader, Document, loaded, all_chunks, pcDocs>>

(***************************************************************************)
(* One request to orchestrate_chat (chat.py): the request, the message     *)
(* list built for the chat model, the tool calls of the first response,    *)
(* the tool logs, the response, and, as history, what the request did.     *)
(* chat_session_id is the local session_id of orchestrate_chat,            *)
(* session_files the listing of the session directory that the filename    *)
(* inference went through, rag_filename the filename it gave.              *)
(***************************************************************************)
VARIABLES req, chat_session_id, tool_map, session_files, rag_filename,
          messages, msg_tool_calls, tool_logs, response, trace, pcChat

chatVars == <<req, chat_session_id, tool_map, session_files, rag_filename,
              messages, msg_tool_calls, tool_logs, response, trace, pcChat>>

vars == <<chunkVars, ragVars, docVars, chatVars>>

Cut(s, e, kept) == [s |-> s, e |-> e, kept |-> kept]

\* lines 71-86: the empty text, the choice of path, the loop's set-up
Enter ==
    /\ pc = "entry"
    /\ IF text = <<>> THEN pc' = "done" /\ UNCHANGED is_markdown
       ELSE IF chunk_size < MinBoundaryChunkSize
            THEN pc' = "fallback" /\ UNCHANGED is_markdown
            ELSE pc' = "loop" /\ is_markdown' = _is_markdown(text)
    /\ start' = 0
    /\ chunks' = <<>>
    /\ UNCHANGED <<text, chunk_size, chunk_overlap, cuts>>
    /\ UNCHANGED <<ragVars, docVars, chatVars>>

\* lines 78-82: one pass of the fixed-width loop, or its exit
FallbackStep ==
    /\ pc = "fallback"
    /\ IF start < Len(text)
       THEN LET end == Min(start + chunk_size, Len(text))
            IN  /\ chunks' = Append(chunks, Slice(text, start, end))
                /\ cuts' = Append(cuts, Cut(start, end, TRUE))
                /\ start' = IF end < Len(text) THEN end - chunk_overlap ELSE end
                /\ pc' = "fallback"
       ELSE pc' = "done" /\ UNCHANGED <<start, chunks, cuts>>
    /\ UNCHANGED <<text, chunk_size, chunk_overlap, is_markdown>>
    /\ UNCHANGED <<ragVars, docVars, chatVars>>

\* lines 88-155: one pass of the boundary-aware loop, or its exit
LoopStep ==
    /\ pc = "loop"
    /\ IF ~(start < Len(text))
       THEN pc' = "done" /\ UNCHANGED <<start, chunks, cuts>>
       ELSE IF target_end(text, chunk_size, start) >= Len(text)
       THEN /\ chunks' = Append(chunks, Slice(text, start, Len(text)))
            /\ cuts' = Append(cuts, Cut(start, Len(text), TRUE))
            /\ pc' = "done"
            /\ UNCHANGED start
       ELSE LET be == best_end(text, chunk_size, chunk_overlap, is_markdown, start)
                chunk == Strip(Slice(text, start, be))
                nxt == next_start(text, chunk_size, chunk_overlap, is_markdown, start)
            IN  /\ chunks' = IF chunk # <<>> THEN Append(chunks, chunk) ELSE chunks
                /\ cuts' = Append(cuts, Cut(start, be, chunk # <<>>))
                /\ start' = nxt
                /\ pc' = IF nxt >= Len(text) THEN "done" ELSE "loop"
    /\ UNCHANGED <<text, chunk_size, chunk_overlap, is_markdown>>
    /\ UNCHANGED <<ragVars, docVars, chatVars>>

(***************************************************************************)
(* chunk_text as a function: the list of chunks it returns.                *)
(***************************************************************************)
RECURSIVE FallbackFrom(_, _, _, _)
FallbackFrom(t, size, overlap, from) ==
    IF ~(from < Len(t)) THEN <<>>
    ELSE LET end == Min(from + size, Len(t))
         IN  <<Slice(t, from, end)>>
                \o FallbackFrom(t, size, overlap, IF end < Len(t) THEN end - overlap ELSE end)

RECURSIVE LoopFrom(_, _, _, _, _)
LoopFrom(t, size, overlap, md, from) ==
    IF ~(from < Len(t)) THEN <<>>
    ELSE IF target_end(t, size, from) >= Len(t) THEN <<Slice(t, from, Len(t))>>
    ELSE LET chunk == Strip(Slice(t, from, best_end(t, size, overlap, md, from)))
         IN  (IF chunk # <<>> THEN <<chunk>> ELSE <<>>)
                \o LoopFrom(t, size, overlap, md, next_start(t, size, overlap, md, from))

chunk_text(t, size, overlap) ==
    IF t = <<>> THEN <<>>
    ELSE IF size < MinBoundaryChunkSize THEN FallbackFrom(t, size, overlap, 0)
    ELSE LoopFrom(t, size, overlap, _is_markdown(t), 0)

ChunkIdle ==
    /\ text = <<>>
    /\ chunk_size = DefaultChunkSize
    /\ chunk_overlap = DefaultChunkOverlap
    /\ is_markdown = FALSE
    /\ start = 0
    /\ chunks = <<>>
    /\ cuts = <<>>
    /\ pc = "idle"

(***************************************************************************)
(* chunk_documents: the chunks of every document with content, in order,   *)
(* each with its index within its document.                                *)
(***************************************************************************)
\* DocChunks with the index counted from 1
DocChunksFromOne(doc) ==
    LET cs == chunk_text(doc.content, DefaultChunkSize, DefaultChunkOverlap)
    IN  [idx \in 1..Len(cs) |->
            [content |-> cs[idx], document_id |-> doc.document_id,
             filename |-> doc.filename, chunk_index |-> idx]]

DocChunks(doc) ==
    LET cs == chunk_text(doc.content, DefaultChunkSize, DefaultChunkOverlap)
    IN  [idx \in 1..Len(cs) |->
            [content |-> cs[idx], document_id |-> doc.document_id,
             filename |-> doc.filename, chunk_index |-> idx - 1]]

RECURSIVE chunk_documents(_)
chunk_documents(documents) ==
    IF documents = <<>> THEN <<>>
    ELSE (IF Head(documents).content = <<>> THEN <<>> ELSE DocChunks(Head(documents)))
            \o chunk_documents(Tail(documents))

(***************************************************************************)
(* The values the service is called with.                                  *)
(***************************************************************************)
None == "None"

MaxUploadFiles == 1

MaxRecords == 2

MaxFilenameLen == 200

MinTopK == 1

MaxTopK == 10

Sessions == {"s1", "s2"}

Filenames == {"a.txt", "b.md"}

UploadNames == Filenames \cup {""}

NameLength(name) == IF name = "" THEN 0 ELSE IF name = "a.txt" THEN 5 ELSE 4

FileContents == { <<>>, <<"h", "i">> }

\* the content of a file whose name is rejected is never written or read
UploadFile ==
    [filename : Filenames, content : FileContents]
        \cup [filename : UploadNames \ Filenames, content : {<<>>}]

UploadLists == UNION {[1..n -> UploadFile] : n \in 0..MaxUploadFiles}

Queries == { <<>>, <<" ", "\n">>, <<"h", "i">> }

TopKs == {-1, 0, 5, 11}

FilenameArgs == {None, "a.txt"}

\* str(fp) of STORAGE_DIR/<session_id>/<filename>
PathOf(sid, filename) == <<sid, filename>>

(***************************************************************************)
(* The Chroma collection: a set of records, one per id.                    *)
(***************************************************************************)
Matches(metadata, where) == \A k \in DOMAIN where : metadata[k] = where[k]

\* collection.add: the records whose id the collection does not hold yet
CollectionAdd(coll, records) ==
    coll \cup {r \in records : \A o \in coll : o.id # r.id}

\* collection.delete(where=...)
CollectionDelete(coll, where) == {r \in coll : ~Matches(r.metadata, where)}

\* collection.query(n_results, where): the n_results nearest of the matching
\* records, nearest first.  The distances are the embedding provider's, so
\* any n_results of the matching records, in any order, may be the answer.
CollectionQuery(coll, where, n_results) ==
    LET matching == {r \in coll : Matches(r.metadata, where)}
        n == Min(n_results, Cardinality(matching))
    IN  {res \in [1..n -> matching] : \A i, j \in 1..n : res[i] = res[j] => i = j}

\* a where_clause that drops the session when a filename is given
WhereClauseFilenameOnly(session_id, filename) ==
    IF filename # None /\ filename # ""
    THEN [filename |-> filename]
    ELSE [session_id |-> session_id]

\* where_clause of retrieve: always the session, the filename when one is given
WhereClause(session_id, filename) ==
    IF filename # None /\ filename # ""
    THEN [session_id |-> session_id, filename |-> filename]
    ELSE [session_id |-> session_id]

\* a where that no record matches: clear_session left as the stub of its docstring
ClearWhereNothing(session_id) == [session_id |-> None]

\* a where that every record matches
ClearWhereEverything(session_id) == [k \in {} |-> None]

\* where of clear_session
ClearWhere(session_id) == [session_id |-> session_id]

\* the clamp without its lower end
ClampTopKNoFloor(top_k) == Min(top_k, MaxTopK)

\* top_k = max(1, min(int(top_k), 10))
ClampTopK(top_k) == Max(MinTopK, Min(top_k, MaxTopK))

(***************************************************************************)
(* ingest_files, after the embeddings are there: ids and metadatas.        *)
(***************************************************************************)
\* the characters of the file names the model uses
Chars(name) ==
    CASE name = "a.txt" -> <<"a", ".", "t", "x", "t">>
      [] name = "b.md" -> <<"b", ".", "m", "d">>
      [] name = "c.PDF" -> <<"c", ".", "P", "D", "F">>
      [] name = "d.docx" -> <<"d", ".", "d", "o", "c", "x">>
      [] name = "e.bin" -> <<"e", ".", "b", "i", "n">>
      [] name = "Ab.md" -> <<"A", "b", ".", "m", "d">>
      [] OTHER -> <<>>

\* str.lower() on the letters the model uses
LowerChar(c) ==
    CASE c = "A" -> "a" [] c = "B" -> "b" [] c = "D" -> "d" [] c = "F" -> "f"
      [] c = "M" -> "m" [] c = "P" -> "p" [] c = "T" -> "t" [] c = "X" -> "x"
      [] c = "E" -> "e" [] c = "I" -> "i" [] c = "L" -> "l" [] c = "H" -> "h"
      [] OTHER -> c

Lower(s) == [i \in 1..Len(s) |-> LowerChar(s[i])]

\* the position of the dot that starts Path(name).suffix, 0 when there is no
\* suffix: the last dot, unless it is the first or the last character
SuffixDot(chars) ==
    LET dots == {i \in 1..Len(chars) : chars[i] = "."}
    IN  IF dots = {} \/ SetMax(dots) = 1 \/ SetMax(dots) = Len(chars) THEN 0
        ELSE SetMax(dots)

\* Path(name).suffix
Suffix(chars) ==
    IF SuffixDot(chars) = 0 THEN <<>> ELSE SubSeq(chars, SuffixDot(chars), Len(chars))

\* Path(name).stem
Stem(chars) ==
    IF SuffixDot(chars) = 0 THEN chars ELSE SubSeq(chars, 1, SuffixDot(chars) - 1)

(***************************************************************************)
(* loaders.py.  A file on disk is [bad, content]: reading or parsing a bad *)
(* file raises, a good one gives content.  The messages the loaders write  *)
(* in place of a content are a bracket, the message's first words, and a   *)
(* bracket.                                                                *)
(***************************************************************************)
Placeholder(words) == <<"[", words, "]">>

Placeholders ==
    { Placeholder(w) : w \in {"Error loading", "Error reading Markdown",
                              "Error reading PDF", "Error reading DOCX",
                              "PDF support not available",
                              "DOCX support not available",
                              "Unsupported file type"} }

\* the outcome of a call that may raise: a value, or the exception
Returned(v) == [raised |-> FALSE, value |-> v]

Raised == [raised |-> TRUE, value |-> <<>>]

load_text_file(file) == IF file.bad THEN Raised ELSE Returned(file.content)

load_pdf_file(file, pdf_installed) ==
    IF ~pdf_installed THEN Placeholder("PDF support not available")
    ELSE IF file.bad THEN Placeholder("Error reading PDF")
    ELSE file.content

load_docx_file(file, docx_installed) ==
    IF ~docx_installed THEN Placeholder("DOCX support not available")
    ELSE IF file.bad THEN Placeholder("Error reading DOCX")
    ELSE file.content

\* file_path.suffix.lower() of the paths the model uses, by file name
SuffixLower ==
    [name \in {"a.txt", "b.md", "c.PDF", "d.docx", "e.bin", "Ab.md"} |->
        Lower(Suffix(Chars(name)))]

_infer_content_type(file_path) ==
    LET suffix == SuffixLower[file_path[2]]
    IN  CASE suffix = <<".", "t", "x", "t">> -> "text/plain"
          [] suffix = <<".", "m", "d">> -> "text/markdown"
          [] suffix = <<".", "m", "a", "r", "k", "d", "o", "w", "n">> -> "text/markdown"
          [] suffix = <<".", "p", "d", "f">> -> "application/pdf"
          [] suffix = <<".", "d", "o", "c", "x">> ->
                "application/vnd.openxmlformats-officedocument.wordprocessingml.document"
          [] suffix = <<".", "d", "o", "c">> -> "application/msword"
          [] OTHER -> "application/octet-stream"

\* _infer_content_type of the paths the model uses, by file name
ContentTypes ==
    [name \in DOMAIN SuffixLower |-> _infer_content_type(<<"", name>>)]

\* load_file (loaders.py 79-123): the document, or the exception it lets out
load_file(file_path, file, pdf_installed, docx_installed) ==
    LET suffix == SuffixLower[file_path[2]]
        content_type == ContentTypes[file_path[2]]
    IN  IF suffix = <<".", "t", "x", "t">>
        THEN IF load_text_file(file).raised THEN Raised
             ELSE Returned([content |-> load_text_file(file).value,
                            filename |-> file_path[2], content_type |-> content_type])
        ELSE IF suffix \in {<<".", "m", "d">>, <<".", "m", "a", "r", "k", "d", "o", "w", "n">>}
        THEN Returned([content |-> IF load_text_file(file).raised
                                   THEN Placeholder("Error reading Markdown")
                                   ELSE load_text_file(file).value,
                       filename |-> file_path[2], content_type |-> content_type])
        ELSE IF suffix = <<".", "p", "d", "f">>
        THEN Returned([content |-> load_pdf_file(file, pdf_installed),
                       filename |-> file_path[2], content_type |-> content_type])
        ELSE IF suffix = <<".", "d", "o", "c", "x">>
        THEN Returned([content |-> load_docx_file(file, docx_installed),
                       filename |-> file_path[2], content_type |-> content_type])
        ELSE IF load_text_file(file).raised
        THEN Returned([content |-> Placeholder("Unsupported file type"),
                       filename |-> file_path[2], content_type |-> content_type])
        ELSE Returned([content |-> load_text_file(file).value,
                       filename |-> file_path[2],
                       content_type |-> IF content_type = "application/octet-stream"
                                        THEN "text/plain" ELSE content_type])

\* load_files without its try: a file whose load raises gives no document
LoadFilesNoCatch(paths, on_disk, pdf_installed, docx_installed) ==
    LET one(fp) == load_file(fp, on_disk[fp], pdf_installed, docx_installed)
        good == SelectSeq(paths, LAMBDA fp : ~one(fp).raised)
    IN  [i \in 1..Len(good) |->
            [content |-> one(good[i]).value.content,
             filename |-> good[i][2],
             content_type |-> one(good[i]).value.content_type,
             document_id |-> good[i],
             error |-> None]]

\* the document load_files appends for the outcome res of load_file(fp)
LoadedDocument(fp, res) ==
    IF res.raised
    THEN [content |-> Placeholder("Error loading"), filename |-> fp[2],
          content_type |-> "text/plain", document_id |-> fp, error |-> "str(e)"]
    ELSE [content |-> res.value.content, filename |-> res.value.filename,
          content_type |-> res.value.content_type, document_id |-> fp,
          error |-> None]

\* load_files (loaders.py 126-149); error is None when the document has no
\* "error" key
load_files(paths, on_disk, pdf_installed, docx_installed) ==
    [i \in 1..Len(paths) |->
        LoadedDocument(paths[i],
                       load_file(paths[i], on_disk[paths[i]], pdf_installed, docx_installed))]

IngestRecords(session_id, chunk_list) ==
    { [id |-> <<session_id, chunk_list[i].document_id, chunk_list[i].chunk_index, i - 1>>,
       document |-> chunk_list[i].content,
       metadata |-> [session_id |-> session_id,
                     document_id |-> chunk_list[i].document_id,
                     filename |-> chunk_list[i].filename,
                     chunk_index |-> chunk_list[i].chunk_index]] :
        i \in 1..Len(chunk_list) }

(***************************************************************************)
(* The calls.  lastOp is the last call of this process and what it did.    *)
(***************************************************************************)
\* a response body; ingest is <<>> for null and <<summary>> otherwise
NoResponse == [session_id |-> None, stored |-> <<>>, ingest |-> <<>>, ingest_error |-> None]

NoOp ==
    [op |-> "none", session_id |-> None, query |-> <<>>, top_k |-> 0,
     filename |-> None, names |-> <<>>, outcome |-> "none", result |-> <<>>,
     embed_requests |-> 0, store_queries |-> 0, n_results |-> 0,
     ids |-> {}, response |-> NoResponse]

\* no loader pipeline is running
DocIdle ==
    /\ file_paths = <<>>
    /\ disk = <<>>
    /\ PdfReader = TRUE
    /\ Document = TRUE
    /\ loaded = <<>>
    /\ all_chunks = <<>>
    /\ pcDocs = "idle"

\* no chat request is being served
NoTrace ==
    [rag |-> "none", retrievals |-> 0, completions |-> 0, handlers |-> <<>>,
     sent |-> <<>>, msg2_tool_calls |-> <<>>]

ChatIdle ==
    /\ req = [session_id |-> None, query |-> <<>>, web_search |-> FALSE,
              image_generation |-> FALSE, data_analysis |-> FALSE]
    /\ chat_session_id = None
    /\ tool_map = {}
    /\ session_files = <<>>
    /\ rag_filename = None
    /\ messages = <<>>
    /\ msg_tool_calls = <<>>
    /\ tool_logs = <<>>
    /\ response = <<>>
    /\ trace = NoTrace
    /\ pcChat = "idle"

RagIdle ==
    /\ openai_api_key = FALSE
    /\ collection = {}
    /\ storage = {}
    /\ lastOp = NoOp
    /\ clearedSessions = {}

RagInit ==
    /\ openai_api_key \in BOOLEAN
    /\ collection = {}
    /\ storage = {}
    /\ lastOp = NoOp
    /\ clearedSessions = {}
    /\ ChunkIdle
    /\ DocIdle
    /\ ChatIdle

\* a process start: settings are read from the environment (config.py),
\* the collection and the storage directory persist
Restart ==
    /\ openai_api_key' \in BOOLEAN
    /\ lastOp' = NoOp
    /\ UNCHANGED <<collection, storage, clearedSessions>>
    /\ UNCHANGED <<chunkVars, docVars, chatVars>>

\* "not query": the test without the strip
IsBlankNoStrip(query) == query = <<>>

\* "not query.strip()"
IsBlank(query) == Strip(query) = <<>>

\* RAGService.retrieve (service.py 112-157); the embedding request may fail
Retrieve(session_id, query, top_k, filename) ==
    LET call == [NoOp EXCEPT !.op = "retrieve", !.session_id = session_id,
                             !.query = query, !.top_k = top_k,
                             !.filename = filename]
    IN  /\ IF IsBlank(query)
           THEN lastOp' = [call EXCEPT !.outcome = "ok"]
           ELSE IF ~openai_api_key
           THEN lastOp' = [call EXCEPT !.outcome = "RuntimeError"]
           ELSE \/ lastOp' = [call EXCEPT !.outcome = "EmbeddingError",
                                           !.embed_requests = 1]
                \/ \E res \in CollectionQuery(collection,
                                               WhereClause(session_id, filename),
                                               ClampTopK(top_k)) :
                       lastOp' = [call EXCEPT !.outcome = "ok", !.result = res,
                                              !.embed_requests = 1, !.store_queries = 1,
                                              !.n_results = ClampTopK(top_k)]
        /\ UNCHANGED <<openai_api_key, collection, storage, clearedSessions>>
        /\ UNCHANGED <<chunkVars, docVars, chatVars>>

\* RAGService.clear_session (service.py 159-165)
ClearSession(session_id) ==
    /\ collection' = CollectionDelete(collection, ClearWhere(session_id))
    /\ clearedSessions' = clearedSessions \cup {session_id}
    /\ lastOp' = [NoOp EXCEPT !.op = "clear_session", !.session_id = session_id,
                              !.outcome = "ok"]
    /\ UNCHANGED <<openai_api_key, storage>>
    /\ UNCHANGED <<chunkVars, docVars, chatVars>>

\* the number of files the loop of upload_files saves: it stops, with a 400,
\* at the first file whose name is empty or too long
BadName(name) == name = "" \/ NameLength(name) > MaxFilenameLen

SavedCount(files) ==
    LET bad == {i \in 1..Len(files) : BadName(files[i].filename)}
    IN  IF bad = {} THEN Len(files) ELSE SetMin(bad) - 1

\* what a saved path holds once the loop is over: the last content written
WrittenContent(files, n) ==
    [name \in {files[i].filename : i \in 1..n} |->
        files[SetMax({i \in 1..n : files[i].filename = name})].content]

\* _embed_texts with the test for no texts put before the test for the credential
EmbedOutcomesEmptyFirst(key, texts) ==
    IF texts = <<>> THEN {[outcome |-> "ok", requests |-> 0]}
    ELSE IF ~key THEN {[outcome |-> "RuntimeError", requests |-> 0]}
    ELSE {[outcome |-> "ok", requests |-> 1],
          [outcome |-> "EmbeddingError", requests |-> 1]}

\* RAGService._embed_texts (service.py 47-58): its possible outcomes, each with
\* the number of requests sent to the provider; a request may fail
EmbedOutcomes(key, texts) ==
    IF ~key THEN {[outcome |-> "RuntimeError", requests |-> 0]}
    ELSE IF texts = <<>> THEN {[outcome |-> "ok", requests |-> 0]}
    ELSE {[outcome |-> "ok", requests |-> 1],
          [outcome |-> "EmbeddingError", requests |-> 1]}

\* what ingest_files makes of the chunks of the loaded documents
\* (service.py 72-110): the texts to embed, the records and the summary
IngestChunks(sid, n, names, paths, documents, chunk_list) ==
    [n |-> n,
     names |-> names,
     paths |-> paths,
     contents |-> [i \in 1..Len(chunk_list) |-> chunk_list[i].content],
     records |-> IngestRecords(sid, chunk_list),
     summary |-> [session_id |-> sid, documents_loaded |-> Len(documents),
                  chunks_created |-> Len(chunk_list),
                  stored |-> Len(chunk_list)]]

\* chunks = chunk_documents(documents) (service.py 70)
IngestDocuments(sid, n, names, paths, documents) ==
    IngestChunks(sid, n, names, paths, documents, chunk_documents(documents))

\* what upload_files and ingest_files compute from the uploaded files and the
\* session id alone: the files saved, and the documents, chunks, records and
\* summary of the ingest
UploadPipeline ==
    [sid \in Sessions, files \in UploadLists |->
        LET n == SavedCount(files)
            names == [i \in 1..n |-> files[i].filename]
            paths == [i \in 1..n |-> PathOf(sid, files[i].filename)]
            on_disk == [fp \in {PathOf(sid, files[i].filename) : i \in 1..n} |->
                           [bad |-> FALSE, content |-> WrittenContent(files, n)[fp[2]]]]
        IN  IngestDocuments(sid, n, names, {paths[i] : i \in 1..n},
                            load_files(paths, on_disk, TRUE, TRUE))]

\* upload_files once the session id is settled; run is the pipeline's result
UploadToSession(call, files, sid, run) ==
    /\ storage' = storage \cup run.paths
    /\ IF run.n < Len(files)
       THEN /\ lastOp' = [call EXCEPT !.outcome = "HTTP400", !.session_id = sid]
            /\ UNCHANGED <<collection, clearedSessions>>
       ELSE \E emb \in EmbedOutcomes(openai_api_key, run.contents) :
            /\ collection' = IF emb.outcome = "ok"
                             THEN CollectionAdd(collection, run.records)
                             ELSE collection
            /\ clearedSessions' = clearedSessions \ {sid}
            /\ lastOp' =
                [call EXCEPT
                    !.outcome = "HTTP200", !.session_id = sid,
                    !.embed_requests = emb.requests,
                    !.ids = IF emb.outcome = "ok"
                            THEN {r.id : r \in run.records} ELSE {},
                    !.response =
                        [session_id |-> sid, stored |-> run.names,
                         ingest |-> IF emb.outcome = "ok"
                                    THEN <<run.summary>> ELSE <<>>,
                         ingest_error |-> IF emb.outcome = "ok"
                                          THEN None ELSE emb.outcome]]
    \* the model's bound on the size of the collection
    /\ Cardinality(collection') <= MaxRecords
    /\ UNCHANGED openai_api_key
    /\ UNCHANGED <<chunkVars, docVars, chatVars>>

\* POST /files/upload (files.py 15-72) with RAGService.ingest_files
\* (service.py 60-110); session_arg is the form's session_id or None
Upload(files, session_arg) ==
    IF files = <<>>
    THEN /\ lastOp' = [NoOp EXCEPT !.op = "upload", !.names = <<>>,
                                   !.outcome = "HTTP400", !.session_id = session_arg]
         /\ UNCHANGED <<openai_api_key, collection, storage, clearedSessions>>
         /\ UNCHANGED <<chunkVars, docVars, chatVars>>
    ELSE \E sid \in (IF session_arg # None THEN {session_arg}
                     ELSE Sessions \ {p[1] : p \in storage}) :
            UploadToSession([NoOp EXCEPT !.op = "upload",
                                         !.names = [i \in 1..Len(files) |->
                                                       files[i].filename]],
                            files, sid, UploadPipeline[sid, files])

Init == RagInit

Next ==
    \/ Restart
    \/ \E sid \in Sessions, q \in Queries, k \in TopKs, f \in FilenameArgs :
          Retrieve(sid, q, k, f)
    \/ \E sid \in Sessions : ClearSession(sid)
    \/ \E files \in UploadLists, arg \in Sessions \cup {None} : Upload(files, arg)

Spec == Init /\ [][Next]_vars

(***************************************************************************)
(* Properties of the service, checked under Spec.                          *)
(***************************************************************************)
SessionRecords(coll, sid) == {r \in coll : r.metadata.session_id = sid}

\* C1: every record that retrieve(session_id = S, ...) returns has metadata
\* session_id equal to S, with or without a filename filter, whatever calls
\* of upload/ingest, retrieve and clear_session came before.
RetrieveStaysInSession ==
    lastOp.op = "retrieve" =>
        \A i \in 1..Len(lastOp.result) :
            lastOp.result[i].metadata.session_id = lastOp.session_id

\* retrieve with a filename filter returned a record while another session
\* holds a record of the same filename
RetrieveStaysInSessionWitness ==
    /\ lastOp.op = "retrieve"
    /\ lastOp.filename # None
    /\ lastOp.result # <<>>
    /\ \E r \in collection :
        /\ r.metadata.session_id # lastOp.session_id
        /\ r.metadata.filename = lastOp.filename

\* C2: after clear_session(S) and with no ingest_files call for S since,
\* retrieve(S, ...) hands back no record: when it returns, it returns the
\* empty list, for every query, top_k and filename.
RetrieveAfterClearIsEmpty ==
    (lastOp.op = "retrieve" /\ lastOp.session_id \in clearedSessions) =>
        lastOp.result = <<>>

\* retrieve queried the store for a cleared session that has uploaded files,
\* while the store holds records of another session
RetrieveAfterClearIsEmptyWitness ==
    /\ lastOp.op = "retrieve"
    /\ lastOp.session_id \in clearedSessions
    /\ lastOp.outcome = "ok"
    /\ lastOp.store_queries = 1
    /\ \E path \in storage : path[1] = lastOp.session_id
    /\ collection # {}

\* C3: clear_session(S) removes exactly the records of session S and leaves
\* every other record as it was; with no record of S it changes nothing; it
\* raises nothing.
ClearRemovesExactlySession ==
    [][lastOp'.op = "clear_session" =>
        /\ collection' = collection \ SessionRecords(collection, lastOp'.session_id)
        /\ (SessionRecords(collection, lastOp'.session_id) = {} => collection' = collection)
        /\ lastOp'.outcome = "ok"]_vars

\* clear_session ran for a session that has uploaded files and records of
\* another session are still in the store
ClearRemovesExactlySessionWitness ==
    /\ lastOp.op = "clear_session"
    /\ \E path \in storage : path[1] = lastOp.session_id
    /\ SessionRecords(collection, lastOp.session_id) = {}
    /\ collection # {}

ValidUpload(names) == names # <<>> /\ \A i \in 1..Len(names) : ~BadName(names[i])

\* C4: with no credential configured, an upload of well-named files leaves
\* the collection as it was and sends no embedding request; the endpoint
\* saves the files and answers 200 with ingest null and an ingest_error.
NoCredentialUpload ==
    [][(lastOp'.op = "upload" /\ ~openai_api_key /\ ValidUpload(lastOp'.names)) =>
        /\ collection' = collection
        /\ lastOp'.embed_requests = 0
        /\ lastOp'.outcome = "HTTP200"
        /\ lastOp'.response.stored = lastOp'.names
        /\ \A i \in 1..Len(lastOp'.names) :
            PathOf(lastOp'.session_id, lastOp'.names[i]) \in storage'
        /\ lastOp'.response.ingest = <<>>
        /\ lastOp'.response.ingest_error # None]_vars

\* an upload without credential was answered while the store holds records
NoCredentialUploadWitness ==
    /\ lastOp.op = "upload"
    /\ ~openai_api_key
    /\ lastOp.outcome = "HTTP200"
    /\ lastOp.response.ingest_error = "RuntimeError"
    /\ PathOf(lastOp.session_id, lastOp.names[1]) \in storage
    /\ collection # {}

\* C5: retrieve with an empty or whitespace-only query returns the empty
\* list, sends no embedding request and does not query the store, whatever
\* the session, top_k, filename and credential.
BlankQueryDoesNothing ==
    (lastOp.op = "retrieve" /\ Strip(lastOp.query) = <<>>) =>
        /\ lastOp.outcome = "ok"
        /\ lastOp.result = <<>>
        /\ lastOp.embed_requests = 0
        /\ lastOp.store_queries = 0

\* a whitespace-only query, without credential, for a session with records
BlankQueryDoesNothingWitness ==
    /\ lastOp.op = "retrieve"
    /\ lastOp.query # <<>>
    /\ Strip(lastOp.query) = <<>>
    /\ lastOp.filename # None
    /\ ~openai_api_key
    /\ SessionRecords(collection, lastOp.session_id) # {}

\* C16: for every top_k the number of neighbours retrieve requests from the
\* store is min(max(top_k, 1), 10), which lies in 1..10, and retrieve returns
\* at most that many results.
RetrieveAtMostClampedTopK ==
    lastOp.op = "retrieve" =>
        /\ Len(lastOp.result) <= Min(Max(lastOp.top_k, 1), 10)
        /\ lastOp.store_queries = 1 =>
              /\ lastOp.n_results = Min(Max(lastOp.top_k, 1), 10)
              /\ lastOp.n_results \in 1..10

\* a retrieve with top_k below 1 returned one of the two records of its session
RetrieveAtMostClampedTopKWitness ==
    /\ lastOp.op = "retrieve"
    /\ lastOp.top_k < 1
    /\ lastOp.filename = None
    /\ Len(lastOp.result) = 1
    /\ Cardinality(SessionRecords(collection, lastOp.session_id)) = 2

\* C13: the ids ingest_files gives to the records of a call are new to the
\* store: none of them is the id of a record the store already holds, also
\* when the same file path is ingested again into the same session, and the
\* records of one call have ids different from each other.
IngestIdsAreNew ==
    [][(lastOp'.op = "upload" /\ lastOp'.ids # {}) =>
          /\ \A id \in lastOp'.ids : \A r \in collection : r.id # id
          /\ Cardinality(lastOp'.ids) = lastOp'.response.ingest[1].chunks_created]_vars

(***************************************************************************)
(* The texts and parameters chunk_text is run on.                          *)
(*   - every text over Alphabet of at most MaxSmallLen characters, with    *)
(*     every chunk_size up to MaxSmallChunk (the fixed-width path) and     *)
(*     with the smallest boundary-aware chunk_size and the default one;    *)
(*   - long texts for the boundary-aware path with its smallest            *)
(*     chunk_size: a run of one fill character with at most MaxMotifs      *)
(*     motifs written over it at the offsets of Grid;                      *)
(*   - the plain 2500-character text with the default parameters.          *)
(***************************************************************************)
MaxSmallLen == 3

MaxSmallChunk == 3

MaxMotifs == 2

\* the length of the plain text: two and a half default chunks
PlainLen == 5 * (DefaultChunkSize \div 2)

Alphabet == {"a", " ", ".", "\n", "#"}

SmallTexts == UNION {[1..n -> Alphabet] : n \in 0..MaxSmallLen}

Fills == {"a", " "}

Motifs == { <<".", " ">>, <<"\n", "\n">>, <<"\n", "#", " ">>, <<"?", "a">> }

Grid == {0, 148, 170, 198, 230, 330}

LongLens == {MinBoundaryChunkSize + 1, 2 * MinBoundaryChunkSize + 20}

LongOverlaps == {0, 50}

Placements ==
    UNION {[G -> Motifs] : G \in {G \in SUBSET Grid : Cardinality(G) <= MaxMotifs}}

BuildText(len, fill, pl) ==
    [i \in 1..len |->
        IF \E g \in DOMAIN pl : g < i /\ i <= g + Len(pl[g])
        THEN LET g == CHOOSE g \in DOMAIN pl : g < i /\ i <= g + Len(pl[g])
             IN  pl[g][i - g]
        ELSE fill]

ChunkInputs ==
    { <<t, cs, ov>> : t \in SmallTexts,
                      cs \in 1..MaxSmallChunk, ov \in 0..(MaxSmallChunk - 1) }
    \cup { <<t, cs, DefaultChunkOverlap>> :
             t \in SmallTexts, cs \in {DefaultChunkSize} }
    \cup { <<BuildText(n, f, pl), MinBoundaryChunkSize, ov>> :
             n \in LongLens, f \in Fills, pl \in Placements, ov \in LongOverlaps }
    \cup { <<BuildText(MinBoundaryChunkSize + 5, f, <<>>), MinBoundaryChunkSize,
             MinBoundaryChunkSize - 1>> : f \in Fills }
    \cup { <<BuildText(PlainLen, "a", <<>>), DefaultChunkSize, DefaultChunkOverlap>> }

ChunkInit ==
    /\ \E in \in ChunkInputs :
        /\ in[3] < in[2]
        /\ text = in[1]
        /\ chunk_size = in[2]
        /\ chunk_overlap = in[3]
    /\ is_markdown = FALSE
    /\ start = 0
    /\ chunks = <<>>
    /\ cuts = <<>>
    /\ pc = "entry"
    /\ RagIdle
    /\ DocIdle
    /\ ChatIdle



ChunkNext == Enter \/ FallbackStep \/ LoopStep

SpecChunk == ChunkInit /\ [][ChunkNext]_vars

(***************************************************************************)
(* Properties of chunk_text, checked under SpecChunk.                      *)
(***************************************************************************)
\* C6: every pass of the fixed-width loop and of the boundary-aware loop
\* leaves the cursor strictly larger than it found it, unless it is the pass
\* that appends the final remainder and leaves the loop.  The cursor never
\* passes len(text) and the loop is left once the cursor is there, so
\* chunk_text terminates after at most len(text) passes.
CursorAdvances ==
    [][/\ ((pc \in {"fallback", "loop"} /\ start < Len(text)) =>
            (\/ start' > start
             \/ pc' = "done" /\ cuts'[Len(cuts')].e = Len(text)))
       /\ ((pc \in {"fallback", "loop"} /\ ~(start < Len(text))) => pc' = "done")
       /\ (pc # "done" => pc' \in {"fallback", "loop", "done"})
       /\ start' <= Len(text)]_vars

\* the boundary-aware loop resumed at a boundary inside the overlap and ran on
CursorAdvancesWitness ==
    /\ pc = "done"
    /\ chunk_size >= MinBoundaryChunkSize
    /\ Len(cuts) >= 3
    /\ cuts[2].s \in Boundaries(text, chunk_size, chunk_overlap, is_markdown, 0)
    /\ cuts[2].s # cuts[1].e - chunk_overlap

\* C7: every chunk chunk_text returns is non-empty after trimming its
\* surrounding whitespace.
ChunksNonBlank == \A i \in 1..Len(chunks) : Strip(chunks[i]) # <<>>

\* C8: the ranges cut for successive chunks start at offset 0, each next
\* range starts at or before the end of the one before, the last one ends at
\* len(text), and every character that is not whitespace lies in a range
\* whose chunk is returned.
CutsCoverText ==
    /\ cuts # <<>> => cuts[1].s = 0
    /\ \A i \in 2..Len(cuts) : cuts[i].s <= cuts[i - 1].e
    /\ (pc = "done" /\ text # <<>>) =>
        /\ cuts # <<>>
        /\ cuts[Len(cuts)].e = Len(text)
        /\ \A k \in 0..(Len(text) - 1) :
            At(text, k) \notin Whitespace =>
                \E i \in 1..Len(cuts) : cuts[i].kept /\ cuts[i].s <= k /\ k < cuts[i].e

\* a run of the boundary-aware loop with overlapping ranges and a discarded
\* whitespace chunk
CutsCoverTextWitness ==
    /\ pc = "done"
    /\ chunk_size >= MinBoundaryChunkSize
    /\ Len(cuts) >= 3
    /\ cuts[2].s < cuts[1].e
    /\ \E i \in 1..Len(cuts) : ~cuts[i].kept
    /\ chunks # <<>>

\* the boundary candidates of the pass that starts at from
Candidates(from) ==
    {b \in Boundaries(text, chunk_size, chunk_overlap, is_markdown, from) :
        from < b /\ b <= target_end(text, chunk_size, from) + chunk_overlap}

\* the candidate closest to te, the smallest offset winning a tie
Closest(cands, te) ==
    SetMin({b \in cands : \A o \in cands : Abs(b - te) <= Abs(o - te)})

\* C9: in the boundary-aware path every chunk but the final remainder ends
\* at the boundary candidate closest to target_end when there is a candidate,
\* and at target_end only when there is none.
ChunkEndsAtClosestBoundary ==
    chunk_size >= MinBoundaryChunkSize =>
        \A i \in 1..Len(cuts) :
            LET te == target_end(text, chunk_size, cuts[i].s)
            IN  te < Len(text) =>
                    cuts[i].e = IF Candidates(cuts[i].s) = {} THEN te
                                ELSE Closest(Candidates(cuts[i].s), te)

PlainInput ==
    /\ Len(text) = PlainLen
    /\ chunk_size = DefaultChunkSize
    /\ chunk_overlap = DefaultChunkOverlap

ChunkLengths == [i \in 1..Len(chunks) |-> Len(chunks[i])]

ChunksAtMostChunkSize ==
    /\ \A i \in 1..Len(chunks) : Len(chunks[i]) <= chunk_size
    /\ \A i \in 1..Len(cuts) : cuts[i].e - cuts[i].s <= chunk_size

\* a full-size chunk was cut at target_end although the window held a
\* boundary between target_end and target_end + chunk_overlap
ChunksAtMostChunkSizeWitness ==
    /\ pc = "done"
    /\ chunk_size >= MinBoundaryChunkSize
    /\ \E i \in 1..Len(cuts) :
        /\ cuts[i].kept
        /\ cuts[i].e - cuts[i].s = chunk_size
        /\ \E b \in Candidates(cuts[i].s) : b > cuts[i].e
    /\ \E i \in 1..Len(chunks) : Len(chunks[i]) = chunk_size

(***************************************************************************)
(* The loader pipeline as a process: load_files, then chunk_documents.     *)
(***************************************************************************)
MaxDocFiles == 2

DocNames == {"a.txt", "b.md", "c.PDF", "d.docx", "e.bin"}

\* what a path may hold: a file that cannot be read or parsed, an empty
\* file, a short text and, for a.txt, a text one character longer than a chunk
FileStates(name) ==
    { [bad |-> TRUE, content |-> <<>>] }
        \cup { [bad |-> FALSE, content |-> c] : c \in { <<>>, <<"h", "i">> } }
        \cup (IF name = "a.txt"
              THEN { [bad |-> FALSE,
                      content |-> BuildText(DefaultChunkSize + 1, "a", <<>>)] }
              ELSE {})

DocPathLists ==
    UNION { [1..n -> {PathOf("s1", name) : name \in DocNames}] : n \in 0..MaxDocFiles }

\* the installation of a parsing library is varied when a file is there for it
DocInit ==
    /\ file_paths \in DocPathLists
    /\ LET paths == {file_paths[i] : i \in 1..Len(file_paths)}
       IN  /\ disk \in { d \in [paths -> UNION {FileStates(fp[2]) : fp \in paths}] :
                            \A fp \in paths : d[fp] \in FileStates(fp[2]) }
           /\ PdfReader \in (IF PathOf("s1", "c.PDF") \in paths THEN BOOLEAN ELSE {TRUE})
           /\ Document \in (IF PathOf("s1", "d.docx") \in paths THEN BOOLEAN ELSE {TRUE})
    /\ loaded = <<>>
    /\ all_chunks = <<>>
    /\ pcDocs = "load"
    /\ RagIdle
    /\ ChunkIdle
    /\ ChatIdle

\* documents = load_files(file_paths) (service.py 67)
LoadFiles ==
    /\ pcDocs = "load"
    /\ loaded' = load_files(file_paths, disk, PdfReader, Document)
    /\ pcDocs' = "chunk"
    /\ UNCHANGED <<file_paths, disk, PdfReader, Document, all_chunks>>
    /\ UNCHANGED <<chunkVars, ragVars, chatVars>>

\* chunks = chunk_documents(documents) (service.py 70)
ChunkDocuments ==
    /\ pcDocs = "chunk"
    /\ all_chunks' = chunk_documents(loaded)
    /\ pcDocs' = "done"
    /\ UNCHANGED <<file_paths, disk, PdfReader, Document, loaded>>
    /\ UNCHANGED <<chunkVars, ragVars, chatVars>>

DocNext == LoadFiles \/ ChunkDocuments

SpecDocs == DocInit /\ [][DocNext]_vars

(***************************************************************************)
(* Properties of the loader pipeline, checked under SpecDocs.              *)
(***************************************************************************)
\* the number of chunks chunk_text cuts from the content of each document
ChunkCounts ==
    [i \in 1..Len(loaded) |->
        Len(chunk_text(loaded[i].content, DefaultChunkSize, DefaultChunkOverlap))]

\* the sum of the first i entries of counts
RECURSIVE SumTo(_, _)
SumTo(counts, i) == IF i <= 0 THEN 0 ELSE SumTo(counts, i - 1) + counts[i]

\* C12: the chunks of each document carry chunk_index 0, 1, ..., n-1 in
\* order, the count restarting at 0 for every document, and a document with
\* empty content has no chunk.
ChunkIndexSequential ==
    pcDocs = "done" =>
        LET counts == ChunkCounts
        IN  /\ Len(all_chunks) = SumTo(counts, Len(loaded))
            /\ \A i \in 1..Len(loaded) : \A k \in 0..(counts[i] - 1) :
                  /\ all_chunks[SumTo(counts, i - 1) + k + 1].chunk_index = k
                  /\ all_chunks[SumTo(counts, i - 1) + k + 1].document_id
                        = loaded[i].document_id
            /\ \A j \in 1..Len(all_chunks) : \E i \in 1..Len(loaded) :
                  /\ loaded[i].document_id = all_chunks[j].document_id
                  /\ loaded[i].content # <<>>

\* two documents were chunked, the first into two chunks, and the count
\* restarted for the second
ChunkIndexSequentialWitness ==
    /\ pcDocs = "done"
    /\ Len(loaded) = 2
    /\ Len(all_chunks) >= 3
    /\ all_chunks[2].chunk_index = 1
    /\ all_chunks[3].chunk_index = 0

\* C14: load_files returns one document per input path, in input order,
\* whatever the files are, and always returns: the step that calls it ends
\* with the documents in hand.
LoadFilesOnePerPath ==
    /\ pcDocs \in {"load", "chunk", "done"}
    /\ pcDocs \in {"chunk", "done"} =>
        /\ Len(loaded) = Len(file_paths)
        /\ \A i \in 1..Len(file_paths) :
              /\ loaded[i].document_id = file_paths[i]
              /\ loaded[i].filename = file_paths[i][2]

\* two paths were loaded, one of a file whose read raised out of load_file
\* and one of a good file
LoadFilesOnePerPathWitness ==
    /\ pcDocs = "chunk"
    /\ Len(file_paths) = 2
    /\ loaded[1].error # None
    /\ ~disk[file_paths[2]].bad
    /\ loaded[2].content \notin Placeholders

\* reading or parsing the file at fp raises: the file is bad and the loader
\* of its type opens it
ExtractionFails(fp) ==
    LET suffix == SuffixLower[fp[2]]
    IN  /\ disk[fp].bad
        /\ suffix = <<".", "p", "d", "f">> => PdfReader
        /\ suffix = <<".", "d", "o", "c", "x">> => Document

\* C15: a file whose extraction fails with an exception gives a document
\* with a placeholder content and a populated error field, whatever its type.
FailedExtractionHasError ==
    pcDocs \in {"chunk", "done"} =>
        \A i \in 1..Len(file_paths) :
            ExtractionFails(file_paths[i]) =>
                /\ loaded[i].content \in Placeholders
                /\ loaded[i].error # None

(***************************************************************************)
(* chat.py: the helpers of orchestrate_chat.  A string is the sequence of  *)
(* its characters.                                                         *)
(***************************************************************************)
\* "needle in hay" of two strings
Contains(hay, needle) ==
    \E i \in 0..(Len(hay) - Len(needle)) : SubSeq(hay, i + 1, i + Len(needle)) = needle

\* a test that takes only None for a missing session id
FalsyNoneOnly(session_id) == session_id = None

\* "not session_id": None and the empty string are falsy
Falsy(session_id) == session_id = None \/ session_id = ""

\* the orders in which session_dir.iterdir() may list the files of a session
\* (_get_session_files): the order is the file system's
RECURSIVE Orderings(_)
Orderings(names) ==
    IF names = {} THEN { <<>> }
    ELSE UNION { { <<n>> \o rest : rest \in Orderings(names \ {n}) } : n \in names }

_get_session_files(session_id, on_disk) ==
    IF Falsy(session_id) THEN { <<>> }
    ELSE Orderings({ fp[2] : fp \in { q \in on_disk : q[1] = session_id } })

\* the loop with the full names of all the files tried before any stem
MatchFullNamesFirst(files, query_lower) ==
    LET full == { i \in 1..Len(files) : Contains(query_lower, Lower(Chars(files[i]))) }
        stem == { i \in 1..Len(files) :
                    /\ Lower(Stem(Chars(files[i]))) # <<>>
                    /\ Contains(query_lower, Lower(Stem(Chars(files[i])))) }
    IN  IF full # {} THEN files[SetMin(full)]
        ELSE IF stem # {} THEN files[SetMin(stem)]
        ELSE None

\* the loop of _extract_filename_from_query over the listed files
RECURSIVE MatchInOrder(_, _)
MatchInOrder(files, query_lower) ==
    IF files = <<>> THEN None
    ELSE LET fname == Head(files)
             filename_lower == Lower(Chars(fname))
             filename_no_ext == Lower(Stem(Chars(fname)))
         IN  IF Contains(query_lower, filename_lower) THEN fname
             ELSE IF filename_no_ext # <<>> /\ Contains(query_lower, filename_no_ext)
             THEN fname
             ELSE MatchInOrder(Tail(files), query_lower)

\* _extract_filename_from_query, given the listing _get_session_files returned
_extract_filename_from_query(query, session_id, listing) ==
    IF query = <<>> \/ Falsy(session_id) THEN None
    ELSE IF listing = <<>> THEN None
    ELSE MatchInOrder(listing, Lower(query))

triggers ==
    { <<"f", "i", "l", "e">>, <<"f", "i", "l", "e", "s">>,
      <<"d", "o", "c", "u", "m", "e", "n", "t">>, <<"p", "d", "f">>,
      <<"u", "p", "l", "o", "a", "d">>, <<"a", "t", "t", "a", "c", "h", "e", "d">>,
      <<"m", "y", " ", "n", "o", "t", "e", "s">>, <<"t", "h", "e", "s", "e">>,
      <<"t", "h", "i", "s", " ", "d", "o", "c">> }

\* _should_use_rag: the request carries the content of its last user message
_should_use_rag(request, on_disk) ==
    IF Falsy(request.session_id) THEN FALSE
    ELSE IF \E fp \in on_disk : fp[1] = request.session_id THEN TRUE
    ELSE \E k \in triggers : Contains(Lower(request.query), k)

(***************************************************************************)
(* registry.py                                                             *)
(***************************************************************************)
ToolNames == <<"web_search", "generate_image", "analyze_json">>

Enabled(request, name) ==
    CASE name = "web_search" -> request.web_search
      [] name = "generate_image" -> request.image_generation
      [] name = "analyze_json" -> request.data_analysis
      [] OTHER -> FALSE

\* a registry that registers every tool, whatever the settings
GetAllToolSpecs(request) == ToolNames

\* get_enabled_tool_specs: the names of the registered tools, in order
get_enabled_tool_specs(request) == SelectSeq(ToolNames, LAMBDA n : Enabled(request, n))

\* the arguments string of a tool call: empty, an object with the parameter
\* of the tool, a JSON array, or a text that is not JSON
ArgumentsJson == {"", "{args}", "[]", "{"}

\* a dispatch that does not look the name up in tool_map
ExecuteAnyTool(map, name, arguments_json) ==
    IF arguments_json = "{" THEN "JSONDecodeError"
    ELSE IF arguments_json = "[]" THEN "ValueError"
    ELSE "handler"

\* execute_tool_call: the exception it raises, or "handler" when it gets to
\* tool_map[name].handler(**args)
execute_tool_call(map, name, arguments_json) ==
    IF name \notin map THEN "ValueError"
    ELSE IF arguments_json = "{" THEN "JSONDecodeError"
    ELSE IF arguments_json = "[]" THEN "ValueError"
    ELSE "handler"

\* handler(**args): args without the parameter of the handler cannot be bound
\* and the handler does not run; otherwise the stub returns its result
HandlerCall(arguments_json) == IF arguments_json = "{args}" THEN "result" ELSE "TypeError"

(***************************************************************************)
(* orchestrate_chat.  A message is [role, kind, body, tool_call_id]: kind  *)
(* names the text the code writes, body holds what the text is built from. *)
(***************************************************************************)
MaxToolCalls == 2

Message(role, kind, body, id) ==
    [role |-> role, kind |-> kind, body |-> body, tool_call_id |-> id]

\* the system prompt, built from the names of the enabled tools
_build_system_prompt(request, enabled_tool_names) ==
    Message("system", "prompt", enabled_tool_names, None)

\* messages = [system prompt, *req.messages] (chat.py 140-143)
InitialMessages(request) ==
    << _build_system_prompt(request, get_enabled_tool_specs(request)),
       Message("user", "user", request.query, None) >>

\* an insert that puts m in front of the list
InsertFirst(list, index, m) == <<m>> \o list

\* list.insert(index, m)
Insert(list, index, m) ==
    SubSeq(list, 1, index) \o <<m>> \o SubSeq(list, index + 1, Len(list))

ChatResponse(session_id, assistant_message, tool_calls, error) ==
    [session_id |-> session_id, assistant_message |-> assistant_message,
     tool_calls |-> tool_calls, error |-> error]

\* rag_service.retrieve as orchestrate_chat sees it: the chunks, or an
\* exception of the embedding request
RetrieveCall(session_id, query, top_k, filename) ==
    IF IsBlank(query) THEN { Returned(<<>>) }
    ELSE IF ~openai_api_key THEN { Raised }
    ELSE { Raised }
           \cup { Returned(res) :
                    res \in CollectionQuery(collection,
                                            WhereClause(session_id, filename),
                                            ClampTopK(top_k)) }

\* the values str(uuid4()) may give
Uuids == {"uuid-1", "uuid-2"}

ToolCallIds == <<"call_1", "call_2", "call_3", "call_4">>

\* the tool calls a response of the chat model may carry: any names, the
\* registered ones or not
CalledNames == {"web_search", "generate_image", "analyze_json", "delete_files"}

ToolCallLists ==
    UNION { { [i \in 1..n |-> [id |-> ToolCallIds[i], name |-> f[i].name,
                               arguments |-> f[i].arguments]] :
                f \in [1..n -> [name : CalledNames, arguments : ArgumentsJson]] } :
            n \in 0..MaxToolCalls }

\* chat.py 121-143: the session id, the key check, the tools, the messages
Start ==
    /\ pcChat = "start"
    /\ \E uuid \in Uuids :
          chat_session_id' = IF Falsy(req.session_id) THEN uuid ELSE req.session_id
    /\ IF ~openai_api_key
       THEN /\ response' = ChatResponse(chat_session_id', None, <<>>,
                                        "OPENAI_API_KEY is not configured.")
            /\ pcChat' = "done"
            /\ UNCHANGED <<tool_map, messages>>
       ELSE /\ tool_map' = { get_enabled_tool_specs(req)[i] :
                               i \in 1..Len(get_enabled_tool_specs(req)) }
            /\ messages' = InitialMessages(req)
            /\ pcChat' = "rag"
            /\ UNCHANGED response
    /\ UNCHANGED <<req, session_files, rag_filename, msg_tool_calls, tool_logs, trace>>
    /\ UNCHANGED <<chunkVars, ragVars, docVars>>

\* chat.py 146-195: the optional RAG injection
RagInjection ==
    /\ pcChat = "rag"
    /\ pcChat' = "complete"
    /\ IF ~_should_use_rag(req, storage)
       THEN /\ trace' = [trace EXCEPT !.rag = "skipped"]
            /\ UNCHANGED <<session_files, rag_filename, messages>>
       ELSE \E listing \in (IF req.query = <<>> THEN { <<>> }
                            ELSE _get_session_files(chat_session_id, storage)) :
              LET fname == IF req.query # <<>>
                           THEN _extract_filename_from_query(req.query, chat_session_id,
                                                             listing)
                           ELSE None
              IN  \E out \in RetrieveCall(chat_session_id, req.query, 5, fname) :
                    /\ session_files' = listing
                    /\ rag_filename' = fname
                    /\ IF out.raised
                       THEN /\ messages' = Insert(messages, 1,
                                                  Message("system", "rag_failed", <<>>, None))
                            /\ trace' = [trace EXCEPT !.rag = "exception",
                                                      !.retrievals = @ + 1]
                       ELSE IF out.value # <<>>
                       THEN /\ messages' =
                                 Insert(messages, 1,
                                        Message("system", "rag_context",
                                                [i \in 1..Len(out.value) |->
                                                    out.value[i].metadata.filename],
                                                None))
                            /\ trace' = [trace EXCEPT !.rag = "chunks",
                                                      !.retrievals = @ + 1]
                       ELSE /\ messages' = messages
                            /\ trace' = [trace EXCEPT !.rag = "empty",
                                                      !.retrievals = @ + 1]
    /\ UNCHANGED <<req, chat_session_id, tool_map, msg_tool_calls, tool_logs, response>>
    /\ UNCHANGED <<chunkVars, ragVars, docVars>>

\* chat.py 197-233 and 296-299: the first completion call
FirstCompletion ==
    /\ pcChat = "complete"
    /\ trace' = [trace EXCEPT !.completions = @ + 1, !.sent = Append(@, messages)]
    /\ \/ /\ response' = ChatResponse(chat_session_id, None, <<>>, "OpenAI call failed")
          /\ pcChat' = "done"
          /\ UNCHANGED <<messages, msg_tool_calls>>
       \/ \E tcs \in ToolCallLists :
             IF tcs = <<>>
             THEN /\ response' = ChatResponse(chat_session_id, "assistant_text",
                                              tool_logs, None)
                  /\ pcChat' = "done"
                  /\ UNCHANGED <<messages, msg_tool_calls>>
             ELSE /\ msg_tool_calls' = tcs
                  /\ messages' = Append(messages,
                                        Message("assistant", "tool_calls",
                                                [i \in 1..Len(tcs) |-> tcs[i].id], None))
                  /\ pcChat' = "tools"
                  /\ UNCHANGED response
    /\ UNCHANGED <<req, chat_session_id, tool_map, session_files, rag_filename, tool_logs>>
    /\ UNCHANGED <<chunkVars, ragVars, docVars>>

\* what one pass of the loop at chat.py 235-278 ends with: "result", or the
\* exception raised by json.loads (240), execute_tool_call or the handler
ToolCallOutcome(map, tc) ==
    IF tc.arguments = "{" THEN "JSONDecodeError"
    ELSE IF execute_tool_call(map, tc.name, tc.arguments) = "handler"
    THEN HandlerCall(tc.arguments)
    ELSE execute_tool_call(map, tc.name, tc.arguments)

\* a loop that stops after its first pass
LoopEndsAfterFirst(logs, calls) == Len(logs) >= 1

\* the for loop at chat.py 235 ends when every tool call had its pass
LoopEnds(logs, calls) == Len(logs) = Len(calls)

\* chat.py 235-278: one pass of the loop over msg.tool_calls
ToolCall ==
    /\ pcChat = "tools"
    /\ Len(tool_logs) < Len(msg_tool_calls)
    /\ LET tc == msg_tool_calls[Len(tool_logs) + 1]
           outcome == ToolCallOutcome(tool_map, tc)
           log == [name |-> tc.name,
                   input |-> IF tc.arguments \in {"", "{args}"} THEN "dict" ELSE None,
                   output_preview |-> IF outcome = "result" THEN "result" ELSE None,
                   error |-> IF outcome = "result" THEN None ELSE outcome]
       IN  /\ messages' =
                IF outcome = "result"
                THEN messages \o << Message("tool", "result", <<tc.name>>, tc.id),
                                    Message("system", "tool_notice", <<tc.name>>, None) >>
                ELSE Append(messages,
                            Message("tool", "error", <<outcome, tc.name>>, tc.id))
           /\ tool_logs' = Append(tool_logs, log)
           /\ trace' = IF tc.arguments # "{"
                          /\ execute_tool_call(tool_map, tc.name, tc.arguments) = "handler"
                       THEN [trace EXCEPT !.handlers = Append(@, tc.name)]
                       ELSE trace
    /\ pcChat' = IF LoopEnds(tool_logs', msg_tool_calls) THEN "followup" ELSE "tools"
    /\ UNCHANGED <<req, chat_session_id, tool_map, session_files, rag_filename,
                   msg_tool_calls, response>>
    /\ UNCHANGED <<chunkVars, ragVars, docVars>>

\* the tool calls the second response may carry: none, or a call of a tool
\* with proper arguments; only msg2.content is read (chat.py 286-287)
FollowupToolCalls ==
    { <<>>, << [id |-> ToolCallIds[MaxToolCalls + 1], name |-> "web_search",
                arguments |-> "{args}"] >> }

\* chat.py 280-299: the completion call after the tool round
SecondCompletion ==
    /\ pcChat = "followup"
    /\ \/ /\ trace' = [trace EXCEPT !.completions = @ + 1,
                                     !.sent = Append(@, messages)]
          /\ response' = ChatResponse(chat_session_id, None, tool_logs,
                                      "OpenAI follow-up after tool call failed")
       \/ \E tcs \in FollowupToolCalls :
             /\ trace' = [trace EXCEPT !.completions = @ + 1,
                                       !.sent = Append(@, messages),
                                       !.msg2_tool_calls = tcs]
             /\ response' = ChatResponse(chat_session_id, "assistant_text",
                                         tool_logs, None)
    /\ pcChat' = "done"
    /\ UNCHANGED <<req, chat_session_id, tool_map, session_files, rag_filename,
                   messages, msg_tool_calls, tool_logs>>
    /\ UNCHANGED <<chunkVars, ragVars, docVars>>

(***************************************************************************)
(* The requests: a session id or none, the content of the one user         *)
(* message, the tool settings; the files of session s1 and their records.  *)
(***************************************************************************)
ChatSessionIds == {None, "", "s1"}

ChatQueries ==
    { <<>>, <<" ">>, <<"h", "i">>, <<"A", "B", ".", "M", "D">>,
      <<"a", ".", "t", "x", "t">>, <<"m", "y", " ", "p", "d", "f">> }

ChatFiles == {"a.txt", "Ab.md"}

ChatInit ==
    /\ req \in [session_id : ChatSessionIds, query : ChatQueries, web_search : BOOLEAN,
                image_generation : BOOLEAN, data_analysis : BOOLEAN]
    /\ openai_api_key \in BOOLEAN
    /\ \E names \in SUBSET ChatFiles :
          /\ storage = { PathOf("s1", n) : n \in names }
          /\ collection =
                UNION { IngestRecords("s1", << [document_id |-> PathOf("s1", n),
                                                chunk_index |-> 0,
                                                content |-> <<"h", "i">>,
                                                filename |-> n] >>) : n \in names }
    /\ lastOp = NoOp
    /\ clearedSessions = {}
    /\ chat_session_id = None
    /\ tool_map = {}
    /\ session_files = <<>>
    /\ rag_filename = None
    /\ messages = <<>>
    /\ msg_tool_calls = <<>>
    /\ tool_logs = <<>>
    /\ response = <<>>
    /\ trace = NoTrace
    /\ pcChat = "start"
    /\ ChunkIdle
    /\ DocIdle

ChatNext == Start \/ RagInjection \/ FirstCompletion \/ ToolCall \/ SecondCompletion

SpecChat == ChatInit /\ [][ChatNext]_vars

(***************************************************************************)
(* Properties of orchestrate_chat, checked under SpecChat.                 *)
(***************************************************************************)
\* the request without a key did nothing but answer
NoKeyNothingDone ==
    /\ response.assistant_message = None
    /\ response.error # None
    /\ response.error # ""
    /\ response.tool_calls = <<>>
    /\ trace.retrievals = 0
    /\ trace.completions = 0
    /\ trace.handlers = <<>>

\* C17: without a chat API key the response carries the session id of the
\* request when the request has a non-empty one and a newly generated,
\* non-empty id otherwise; assistant_message is null, error is non-empty,
\* and no retrieval, completion call or tool call was made.
NoKeyResponse ==
    (pcChat = "done" /\ ~openai_api_key) =>
        /\ NoKeyNothingDone
        /\ (~(req.session_id \in {None, ""}) => response.session_id = req.session_id)
        /\ (req.session_id \in {None, ""} => response.session_id \in Uuids)

\* a request without a session id was answered without a key
NoKeyResponseWitness ==
    /\ pcChat = "done"
    /\ ~openai_api_key
    /\ req.session_id = None
    /\ response.session_id = "uuid-2"
    /\ response.error = "OPENAI_API_KEY is not configured."

\* C17 as stated: the session id of the response is that of the request
NoKeyResponseKeepsSessionId ==
    (pcChat = "done" /\ ~openai_api_key) =>
        /\ NoKeyNothingDone
        /\ response.session_id = req.session_id

\* the retrieval of the request raised or gave no chunk, and the first
\* completion call was made
NoGroundingSent == trace.rag \in {"empty", "exception"} /\ trace.sent # <<>>

\* C18: after a retrieval that gave no chunk the chat model is sent the
\* system prompt and the request's messages; after a retrieval that raised
\* it is sent the same list with one system message reporting the failure
\* inserted after the system prompt.  In both cases no grounding context is
\* in the list and the request goes on to the completion call.
RetrievalFailureDegrades ==
    /\ trace.rag \in {"empty", "exception"} =>
          /\ pcChat \in {"complete", "tools", "followup", "done"}
          /\ (pcChat = "done" => trace.completions >= 1)
    /\ NoGroundingSent =>
          /\ \A i \in 1..Len(trace.sent[1]) : trace.sent[1][i].kind # "rag_context"
          /\ (trace.rag = "empty" => trace.sent[1] = InitialMessages(req))
          /\ (trace.rag = "exception" =>
                trace.sent[1] = << InitialMessages(req)[1],
                                   Message("system", "rag_failed", <<>>, None),
                                   InitialMessages(req)[2] >>)

\* a request whose retrieval raised was answered by the chat model
RetrievalFailureDegradesWitness ==
    /\ trace.rag = "exception"
    /\ pcChat = "done"
    /\ Len(trace.sent) = 1
    /\ Len(trace.sent[1]) = 3
    /\ response.error = None
    /\ response.assistant_message # None

\* C18 as stated: the list sent is the same in both cases
RetrievalExceptionSameMessages ==
    NoGroundingSent => trace.sent[1] = InitialMessages(req)

\* the filename inference ran: a retrieval was made for a non-empty query
InferenceRan == trace.retrievals = 1 /\ req.query # <<>>

\* the positions, in the listing, of the files whose name or whose name
\* without extension occurs in the query, case-insensitively
MatchingPositions ==
    { i \in 1..Len(session_files) :
        \/ Contains(Lower(req.query), Lower(Chars(session_files[i])))
        \/ Contains(Lower(req.query), Lower(Stem(Chars(session_files[i])))) }

\* C19: the filename inferred from the query is the first file of the
\* session-file listing whose full name or whose name without extension
\* occurs case-insensitively in the query, and none when no file matches;
\* so an earlier file matching by its stem only wins over a later file
\* matching by its full name.
FirstMatchingFileWins ==
    InferenceRan =>
        rag_filename = IF MatchingPositions = {} THEN None
                       ELSE session_files[SetMin(MatchingPositions)]

\* a.txt, listed first and matching by its stem only, was inferred from a
\* query that holds the full name of Ab.md
FirstMatchingFileWinsWitness ==
    /\ InferenceRan
    /\ session_files = <<"a.txt", "Ab.md">>
    /\ req.query = <<"A", "B", ".", "M", "D">>
    /\ ~Contains(Lower(req.query), Lower(Chars("a.txt")))
    /\ Contains(Lower(req.query), Lower(Chars("Ab.md")))
    /\ rag_filename = "a.txt"

\* the tool calls handled so far that name a tool the request did not enable
\* or no tool at all, by position
NotEnabledCalls ==
    { i \in 1..Len(tool_logs) : ~Enabled(req, msg_tool_calls[i].name) }

\* the tool messages appended for the tool call with the given id
ToolMessages(id) ==
    SelectSeq(messages, LAMBDA m : m.role = "tool" /\ m.tool_call_id = id)

\* C20: only handlers of tools enabled in the request are invoked; a tool
\* call naming a disabled or unknown tool has a tool_calls entry with an
\* error and exactly one tool message, carrying that error, for its
\* tool_call_id, and the request goes on: a response is returned with the
\* entry in tool_calls.
DisabledToolNotRun ==
    /\ \A i \in 1..Len(trace.handlers) : Enabled(req, trace.handlers[i])
    /\ \A i \in NotEnabledCalls :
          /\ tool_logs[i].name = msg_tool_calls[i].name
          /\ tool_logs[i].error # None
          /\ tool_logs[i].output_preview = None
          /\ Len(ToolMessages(msg_tool_calls[i].id)) = 1
          /\ ToolMessages(msg_tool_calls[i].id)[1].kind = "error"
          /\ ToolMessages(msg_tool_calls[i].id)[1].body
                = <<tool_logs[i].error, msg_tool_calls[i].name>>
    /\ (NotEnabledCalls # {} =>
          /\ pcChat \in {"tools", "followup", "done"}
          /\ (pcChat = "done" =>
                /\ trace.completions = 2
                /\ response.tool_calls = tool_logs))

\* a response to the model called a disabled tool and then an enabled one
\* with proper arguments: only the handler of the second ran, and the
\* request was answered
DisabledToolNotRunWitness ==
    /\ pcChat = "done"
    /\ ~req.web_search
    /\ req.data_analysis
    /\ Len(msg_tool_calls) = 2
    /\ msg_tool_calls[1].name = "web_search"
    /\ msg_tool_calls[1].arguments = "{args}"
    /\ msg_tool_calls[2].name = "analyze_json"
    /\ trace.handlers = <<"analyze_json">>
    /\ response.tool_calls[1].error = "ValueError"
    /\ response.assistant_message # None

\* the tool_call_ids of the tool messages of a message list, in order
ToolMessageIds(list) ==
    LET tool_messages == SelectSeq(list, LAMBDA m : m.role = "tool")
    IN  [i \in 1..Len(tool_messages) |-> tool_messages[i].tool_call_id]

\* C21: a request makes at most two completion calls; a second call is made
\* only when the first response carried tool calls, and the messages it
\* sends hold exactly one tool message per tool call, in the order of the
\* calls, with one tool_calls log entry per call in the same order; after
\* the second call nothing is executed, logged or appended, whatever tool
\* calls its response carries.
AtMostTwoCompletions ==
    /\ trace.completions <= 2
    /\ Len(trace.sent) = trace.completions
    /\ (trace.completions = 2 =>
          /\ msg_tool_calls # <<>>
          /\ ToolMessageIds(trace.sent[2])
                = [i \in 1..Len(msg_tool_calls) |-> msg_tool_calls[i].id]
          /\ Len(tool_logs) = Len(msg_tool_calls)
          /\ \A i \in 1..Len(msg_tool_calls) : tool_logs[i].name = msg_tool_calls[i].name
          /\ pcChat = "done"
          /\ messages = trace.sent[2]
          /\ response.tool_calls = tool_logs
          /\ Len(trace.handlers) <= Len(msg_tool_calls)
          /\ \A i \in 1..Len(trace.handlers) :
                \E j \in 1..Len(msg_tool_calls) : msg_tool_calls[j].name = trace.handlers[i])
    /\ (pcChat = "done" /\ msg_tool_calls = <<>> => trace.completions <= 1)

\* the first response carried two tool calls, both were handled, and the
\* second response carried a call of an enabled tool that was not run
AtMostTwoCompletionsWitness ==
    /\ pcChat = "done"
    /\ trace.completions = 2
    /\ Len(msg_tool_calls) = 2
    /\ msg_tool_calls[1].name = "analyze_json"
    /\ msg_tool_calls[2].name = "delete_files"
    /\ req.web_search
    /\ req.data_analysis
    /\ trace.msg2_tool_calls # <<>>
    /\ trace.handlers = <<"analyze_json">>
    /\ Len(response.tool_calls) = 2
    /\ response.assistant_message # None

====
